---- MODULE Spec2Model ----
(***************************************************************************)
(* The positions-first backtest engine (backend/backtesting/engine.py),    *)
(* its risk manager (risk_manager.py) and its position and trade records   *)
(* (positions.py).                                                         *)
(*                                                                         *)
(* Numbers.  The code computes in binary floating point.  The model uses   *)
(* exact fixed-point arithmetic: every price and amount of money is an     *)
(* integer number of ticks of 0.1 currency units, percentages are integer  *)
(* percents, and every close is a whole number of currency units, so that  *)
(* each stop (90% of a price) and each target (120% of a price) is an      *)
(* integer number of ticks and no division below loses a remainder except  *)
(* where the code itself truncates with int().                             *)
(*                                                                         *)
(* Inputs.  run_backtest reads price_data and signals only at the date it  *)
(* is processing, so the model draws the bars, the ATR values and the      *)
(* signals of a date when that date is processed.  ATR(14) is an input:    *)
(* absent (fewer than 14 rows, or no row), NaN (warm-up) or a value.       *)
(***************************************************************************)
EXTENDS Integers, Sequences, FiniteSets, TLC

\* ------------------------------------------------------------------ bounds
MaxDate == 3
MaxSignals == 2

\* The calls of run_backtest made on one engine.
MaxRuns == 2

\* The symbols of a scanned universe.
MaxUniverse == 2

\* The trades handed to the performance calculator.
MaxTrades == 3

\* get_actionable_setups' default min_confidence.
DefaultMinConfidence == 70

\* --------------------------------------------------------------- constants
TargetPct == 20
DefaultInitialCapital == 100000
DefaultMaxPositions == 10

\* ----------------------------------------------------------------- helpers
D(x) == x * 10

Max(a, b) == IF b > a THEN b ELSE a

Min(a, b) == IF b < a THEN b ELSE a

\* Python int() of the quotient n / d of two numbers, d > 0: truncation
\* towards zero.
IntDiv(n, d) == IF n >= 0 THEN n \div d ELSE -((-n) \div d)

NoSymbol == ""

NoBar == [has |-> FALSE, close |-> 0]

Bar(c) == [has |-> TRUE, close |-> c]

AtrNone == [kind |-> "None", v |-> 0]

AtrNaN == [kind |-> "NaN", v |-> 0]

AtrVal(x) == [kind |-> "value", v |-> x]

RECURSIVE SumSeq(_)
SumSeq(s) == IF s = <<>> THEN 0 ELSE Head(s) + SumSeq(Tail(s))

RECURSIVE SortedSeqOf(_)
SortedSeqOf(S) ==
    IF S = {} THEN <<>>
    ELSE LET m == CHOOSE x \in S : \A y \in S : x <= y
         IN <<m>> \o SortedSeqOf(S \ {m})

\* ------------------------------------------------------------ RiskManager
DefaultRiskManager ==
    [initial_stop_loss_pct |-> 10,
     trailing_stop_trigger_pct |-> 15,
     trailing_stop_atr_multiplier |-> 2,
     max_position_size_pct |-> 10,
     max_portfolio_risk_pct |-> 2,
     max_drawdown_limit |-> 20]

\* The stop is put at the entry price itself.
calculate_initial_stop_loss_at_entry(rm, entry_price) == entry_price

calculate_initial_stop_loss(rm, entry_price) ==
    (entry_price * (100 - rm.initial_stop_loss_pct)) \div 100

calculate_take_profit(rm, entry_price) ==
    (entry_price * (100 + TargetPct)) \div 100

\* The trigger taken as reached only above it.
update_trailing_stop_above_trigger(rm, position, current_price, atr) ==
    IF (current_price - position.entry_price) * 100
           <= rm.trailing_stop_trigger_pct * position.entry_price
    THEN position.stop_loss
    ELSE LET trailing_stop ==
                 IF atr.kind = "value" /\ atr.v > 0
                 THEN current_price - rm.trailing_stop_atr_multiplier * atr.v
                 ELSE (current_price * (100 - rm.initial_stop_loss_pct)) \div 100
         IN Max(position.stop_loss, trailing_stop)

\* The candidate stop is returned without the max with the current stop.
update_trailing_stop_no_max(rm, position, current_price, atr) ==
    IF (current_price - position.entry_price) * 100
           < rm.trailing_stop_trigger_pct * position.entry_price
    THEN position.stop_loss
    ELSE IF atr.kind = "value" /\ atr.v > 0
         THEN current_price - rm.trailing_stop_atr_multiplier * atr.v
         ELSE (current_price * (100 - rm.initial_stop_loss_pct)) \div 100

update_trailing_stop(rm, position, current_price, atr) ==
    IF (current_price - position.entry_price) * 100
           < rm.trailing_stop_trigger_pct * position.entry_price
    THEN position.stop_loss
    ELSE LET trailing_stop ==
                 IF atr.kind = "value" /\ atr.v > 0
                 THEN current_price - rm.trailing_stop_atr_multiplier * atr.v
                 ELSE (current_price * (100 - rm.initial_stop_loss_pct)) \div 100
         IN Max(position.stop_loss, trailing_stop)

\* The size limit alone, whatever the risk per share.
calculate_position_size_by_size(rm, portfolio_value, entry_price, stop_loss_price) ==
    IntDiv(portfolio_value * rm.max_position_size_pct, 100 * entry_price)

calculate_position_size(rm, portfolio_value, entry_price, stop_loss_price) ==
    LET shares_by_size ==
            IntDiv(portfolio_value * rm.max_position_size_pct, 100 * entry_price)
        risk_per_share == entry_price - stop_loss_price
    IN IF risk_per_share <= 0
       THEN shares_by_size
       ELSE Min(shares_by_size,
                IntDiv(portfolio_value * rm.max_portfolio_risk_pct,
                       100 * risk_per_share))

\* The limit taken as a ratio, not as a percentage.
check_drawdown_limit_as_ratio(rm, current_drawdown) ==
    current_drawdown.num >= rm.max_drawdown_limit * current_drawdown.den

\* current_drawdown is the fraction num / den.
check_drawdown_limit(rm, current_drawdown) ==
    current_drawdown.num * 100 >= rm.max_drawdown_limit * current_drawdown.den

\* --------------------------------------------------------------- Position
NewPosition(symbol, shares, entry_price, entry_date, stop_loss, take_profit) ==
    [symbol |-> symbol, shares |-> shares, entry_price |-> entry_price,
     entry_date |-> entry_date, stop_loss |-> stop_loss,
     take_profit |-> take_profit,
     current_price |-> entry_price, current_date |-> entry_date]

current_value(p) == p.shares * p.current_price

cost_basis(p) == p.shares * p.entry_price

update_price(p, price, dt) ==
    [p EXCEPT !.current_price = price, !.current_date = dt]

\* No symbol is ever found among the open positions.
HasPositionNever(positions, symbol) == FALSE

\* self.positions is a dict; the model keeps it as the sequence of its values
\* in insertion order.
HasPosition(positions, symbol) ==
    \E i \in 1..Len(positions) : positions[i].symbol = symbol

RemovePosition(positions, symbol) ==
    SelectSeq(positions, LAMBDA p : p.symbol # symbol)

PositionOf(positions, symbol) ==
    positions[CHOOSE i \in 1..Len(positions) : positions[i].symbol = symbol]

\* ------------------------------------------------------------------ signals
\* A signal is a dict: a function whose domain is the set of its keys.
Get(d, key, default) == IF key \in DOMAIN d THEN d[key] ELSE default

Signal(symbol, confidence) == [symbol |-> symbol, confidence |-> confidence]

Confidence(signal) == Get(signal, "confidence", 0)

\* The signals are taken in their input order, unsorted.
SortByConfidenceOmitted(signals) == signals

\* sorted(day_signals, key=confidence, reverse=True): Python's sort is stable,
\* also under reverse=True, so signals of equal confidence keep their input
\* order.
RECURSIVE InsertByConfidence(_, _)
InsertByConfidence(sorted, signal) ==
    IF sorted = <<>> THEN <<signal>>
    ELSE IF Confidence(Head(sorted)) >= Confidence(signal)
         THEN <<Head(sorted)>> \o InsertByConfidence(Tail(sorted), signal)
         ELSE <<signal>> \o sorted

RECURSIVE SortByConfidence(_)
SortByConfidence(signals) ==
    IF signals = <<>> THEN <<>>
    ELSE InsertByConfidence(SortByConfidence(SubSeq(signals, 1, Len(signals) - 1)),
                            signals[Len(signals)])

\* ----------------------------------------------------------- BacktestEngine
VARIABLES
    scenario,          \* which inputs the environment supplies
    initial_capital, max_positions, risk_manager,
    cash, positions, trades, equity_curve, peak_equity,
    n_entries, n_removals,    \* calls of _execute_entry, pops of positions
    pc,
    panel_symbols,     \* the keys of price_data
    signals_given,     \* the truth value of the signals argument
    trading_dates, di, \* run_backtest's date list and loop position
    bars, atrs,        \* the row and the ATR(14) of each symbol at the date
    day_signals, sorted_signals, si,
    portfolio_value, current_drawdown,  \* locals of _process_entries
    runs,              \* calls of run_backtest on this engine
    previous_results,  \* what the call before the current one returned
    scan_pc,           \* the PatternScanner: idle, scanned, returned or raised
    symbol_data,       \* the symbols of the universe, in iteration order
    detect,            \* what each detector does on each symbol
    min_confidence,
    all_results,       \* scan_universe's dict, in insertion order
    actionable,        \* get_actionable_setups' list
    metrics_pc,        \* the PerformanceCalculator: idle or returned
    metric_trades,     \* the trades it is given
    metrics,           \* what calculate_all_metrics returns of them
    call_pc,           \* a direct call of a stateless method: idle or returned
    call_args,         \* the method and the arguments it was given
    call_result        \* what it returned

vars == <<scenario, initial_capital, max_positions, risk_manager,
          cash, positions, trades, equity_curve, peak_equity,
          n_entries, n_removals, pc, panel_symbols, signals_given,
          trading_dates, di, bars, atrs, day_signals, sorted_signals, si,
          portfolio_value, current_drawdown, runs, previous_results,
          scan_pc, symbol_data, detect, min_confidence, all_results,
          actionable, metrics_pc, metric_trades, metrics,
          call_pc, call_args, call_result>>

metrics_vars == <<metrics_pc, metric_trades, metrics>>

call_vars == <<call_pc, call_args, call_result>>

scanner_vars ==
    <<scan_pc, symbol_data, detect, min_confidence, all_results, actionable>>

component_vars == <<scanner_vars, metrics_vars, call_vars>>

Symbols == {"AAPL", "MSFT", "GOOG", "AMZN", "META"}

current_date == trading_dates[di]

Portfolio ==
    [cash |-> cash, positions |-> positions, trades |-> trades,
     n_entries |-> n_entries, n_removals |-> n_removals]

\* Positions valued at what they cost, not at their marked price.
calculate_portfolio_value_at_cost(pf) ==
    pf.cash + SumSeq([i \in 1..Len(pf.positions) |-> cost_basis(pf.positions[i])])

calculate_portfolio_value(pf) ==
    pf.cash + SumSeq([i \in 1..Len(pf.positions) |-> current_value(pf.positions[i])])

calculate_current_drawdown(pf, peak) ==
    IF peak <= 0 THEN [num |-> 0, den |-> 1]
    ELSE [num |-> peak - calculate_portfolio_value(pf), den |-> peak]

execute_entry(pf, symbol, shares, entry_price, entry_date, stop_loss, take_profit) ==
    LET cost == shares * entry_price
        position == NewPosition(symbol, shares, entry_price, entry_date,
                                stop_loss, take_profit)
    IN [pf EXCEPT
          !.positions =
              IF HasPosition(pf.positions, symbol)
              THEN [i \in 1..Len(pf.positions) |->
                      IF pf.positions[i].symbol = symbol THEN position
                      ELSE pf.positions[i]]
              ELSE Append(pf.positions, position),
          !.cash = pf.cash - cost,
          !.n_entries = pf.n_entries + 1]

\* The Trade's profit_loss is the proceeds, the cost basis not taken off.
NewTradeOnProceeds(position, exit_price, exit_date, reason) ==
    [symbol |-> position.symbol,
     entry_date |-> position.entry_date,
     entry_price |-> position.entry_price,
     exit_date |-> exit_date,
     exit_price |-> exit_price,
     shares |-> position.shares,
     profit_loss |-> position.shares * exit_price,
     profit_loss_pct |-> [num |-> position.shares * exit_price,
                          den |-> cost_basis(position)],
     exit_reason |-> reason]

\* The Trade is dated at the position's entry, not at the exit.
NewTradeOnEntryDate(position, exit_price, exit_date, reason) ==
    [symbol |-> position.symbol,
     entry_date |-> position.entry_date,
     entry_price |-> position.entry_price,
     exit_date |-> position.entry_date,
     exit_price |-> exit_price,
     shares |-> position.shares,
     profit_loss |-> position.shares * exit_price - cost_basis(position),
     profit_loss_pct |-> [num |-> position.shares * exit_price - cost_basis(position),
                          den |-> cost_basis(position)],
     exit_reason |-> reason]

\* The Trade of an exit; profit_loss_pct is the fraction num / den.
NewTrade(position, exit_price, exit_date, reason) ==
    LET proceeds == position.shares * exit_price
        profit_loss == proceeds - cost_basis(position)
    IN [symbol |-> position.symbol,
        entry_date |-> position.entry_date,
        entry_price |-> position.entry_price,
        exit_date |-> exit_date,
        exit_price |-> exit_price,
        shares |-> position.shares,
        profit_loss |-> profit_loss,
        profit_loss_pct |-> [num |-> profit_loss, den |-> cost_basis(position)],
        exit_reason |-> reason]

\* The position is read with positions[symbol], not popped.
execute_exit_keeps_position(pf, symbol, exit_price, exit_date, reason) ==
    LET position == PositionOf(pf.positions, symbol)
    IN [pf EXCEPT
          !.cash = pf.cash + position.shares * exit_price,
          !.trades = Append(pf.trades,
                            NewTrade(position, exit_price, exit_date, reason))]

execute_exit(pf, symbol, exit_price, exit_date, reason) ==
    LET position == PositionOf(pf.positions, symbol)
    IN [pf EXCEPT
          !.positions = RemovePosition(pf.positions, symbol),
          !.n_removals = pf.n_removals + 1,
          !.cash = pf.cash + position.shares * exit_price,
          !.trades = Append(pf.trades,
                            NewTrade(position, exit_price, exit_date, reason))]

\* The fields reset() assigns.
Engine ==
    [cash |-> cash, positions |-> positions, trades |-> trades,
     equity_curve |-> equity_curve, peak_equity |-> peak_equity]

\* peak_equity is left as the last backtest raised it.
reset_keeps_peak_equity(engine) ==
    [engine EXCEPT !.cash = initial_capital, !.positions = <<>>,
                   !.trades = <<>>, !.equity_curve = <<>>]

reset(engine) ==
    [engine EXCEPT !.cash = initial_capital, !.positions = <<>>,
                   !.trades = <<>>, !.equity_curve = <<>>,
                   !.peak_equity = initial_capital]

\* The open positions are closed out at their marked price on return.
get_results_closing_out(engine) ==
    [trades |-> engine.trades \o
                [i \in 1..Len(engine.positions) |->
                    NewTrade(engine.positions[i], engine.positions[i].current_price,
                             engine.positions[i].current_date, "END_OF_BACKTEST")],
     equity_curve |-> engine.equity_curve,
     open_positions |-> <<>>]

\* The dict _get_results returns, without its metrics.
get_results(engine) ==
    [trades |-> engine.trades,
     equity_curve |-> engine.equity_curve,
     open_positions |-> engine.positions]

\* A position without a bar at the date is stamped with the date.
update_position_stamps_gap(rm, position, date, symbols, bar, atr) ==
    IF position.symbol \in symbols /\ bar.has
    THEN LET marked == update_price(position, bar.close, date)
         IN [marked EXCEPT !.stop_loss =
                update_trailing_stop(rm, marked, marked.current_price, atr)]
    ELSE [position EXCEPT !.current_date = date]

\* One position of _update_positions' loop.
update_position(rm, position, date, symbols, bar, atr) ==
    IF position.symbol \in symbols /\ bar.has
    THEN LET marked == update_price(position, bar.close, date)
         IN [marked EXCEPT !.stop_loss =
                update_trailing_stop(rm, marked, marked.current_price, atr)]
    ELSE position

update_positions(rm, ps, date, symbols, bs, as) ==
    [i \in 1..Len(ps) |->
        update_position(rm, ps[i], date, symbols, bs[ps[i].symbol], as[ps[i].symbol])]

\* Take-profit tested with > for >=.
exit_signal_strict_target(position) ==
    IF position.current_price <= position.stop_loss
    THEN <<[symbol |-> position.symbol, reason |-> "STOP_LOSS",
            price |-> position.current_price]>>
    ELSE IF position.current_price > position.take_profit
         THEN <<[symbol |-> position.symbol, reason |-> "TAKE_PROFIT",
                 price |-> position.current_price]>>
         ELSE <<>>

\* The target is tested before the stop.
exit_signal_target_first(position) ==
    IF position.current_price >= position.take_profit
    THEN <<[symbol |-> position.symbol, reason |-> "TAKE_PROFIT",
            price |-> position.current_price]>>
    ELSE IF position.current_price <= position.stop_loss
         THEN <<[symbol |-> position.symbol, reason |-> "STOP_LOSS",
                 price |-> position.current_price]>>
         ELSE <<>>

\* The exit signal of one position: <<>> or one signal.
exit_signal(position) ==
    IF position.current_price <= position.stop_loss
    THEN <<[symbol |-> position.symbol, reason |-> "STOP_LOSS",
            price |-> position.current_price]>>
    ELSE IF position.current_price >= position.take_profit
         THEN <<[symbol |-> position.symbol, reason |-> "TAKE_PROFIT",
                 price |-> position.current_price]>>
         ELSE <<>>

RECURSIVE exit_signals(_)
exit_signals(ps) ==
    IF ps = <<>> THEN <<>> ELSE exit_signal(Head(ps)) \o exit_signals(Tail(ps))

RECURSIVE execute_exits(_, _, _)
execute_exits(pf, signals, date) ==
    IF signals = <<>> THEN pf
    ELSE execute_exits(
             execute_exit(pf, Head(signals).symbol, Head(signals).price, date,
                          Head(signals).reason),
             Tail(signals), date)

check_exits(pf, date) == execute_exits(pf, exit_signals(pf.positions), date)

\* The cap tested with > for >=.
slots_full_off_by_one(n_positions) == n_positions > max_positions

\* `if len(self.positions) >= self.max_positions: break`
slots_full(n_positions) == n_positions >= max_positions

\* The order is never cut down to the cash at hand.
affordable_shares_unreduced(shares, entry_price, available_cash) == shares

\* An order the cash cannot pay in full is dropped, not cut down.
affordable_shares_all_or_nothing(shares, entry_price, available_cash) ==
    IF shares * entry_price > available_cash THEN 0 ELSE shares

\* The shares bought of a sized order: all of them, or what the cash affords.
affordable_shares(shares, entry_price, available_cash) ==
    IF shares * entry_price > available_cash
    THEN IntDiv(available_cash, entry_price)
    ELSE shares

\* One iteration of _process_entries' loop over sorted_signals: the portfolio
\* after it, and whether the loop was left with break.
process_signal(pf, signal) ==
    IF slots_full(Len(pf.positions))
    THEN [pf |-> pf, brk |-> TRUE]
    ELSE IF check_drawdown_limit(risk_manager, current_drawdown)
    THEN [pf |-> pf, brk |-> TRUE]
    ELSE LET symbol == Get(signal, "symbol", NoSymbol)
         IN IF symbol = NoSymbol \/ HasPosition(pf.positions, symbol)
            THEN [pf |-> pf, brk |-> FALSE]
            ELSE IF symbol \notin panel_symbols
            THEN [pf |-> pf, brk |-> FALSE]
            ELSE IF ~bars[symbol].has
            THEN [pf |-> pf, brk |-> FALSE]
            ELSE
              LET entry_price == bars[symbol].close
                  stop_loss == calculate_initial_stop_loss(risk_manager, entry_price)
                  take_profit == calculate_take_profit(risk_manager, entry_price)
                  sized == calculate_position_size(risk_manager, portfolio_value,
                                                   entry_price, stop_loss)
                  shares == affordable_shares(sized, entry_price, pf.cash)
              IN IF sized <= 0 \/ shares <= 0
                 THEN [pf |-> pf, brk |-> FALSE]
                 ELSE [pf |-> execute_entry(pf, symbol, shares, entry_price,
                                            current_date, stop_loss, take_profit),
                       brk |-> FALSE]

\* The whole loop of _process_entries over the sorted signals.
RECURSIVE run_entries(_, _)
run_entries(pf, signals) ==
    IF signals = <<>> THEN pf
    ELSE LET r == process_signal(pf, Head(signals))
         IN IF r.brk THEN r.pf ELSE run_entries(r.pf, Tail(signals))

\* ------------------------------------------------------------- environment
\* The inputs of a run: engine configurations, panels, bars and signals.
\* "S1".."S4" are the literal scenarios of the engine's tests; the others
\* draw their inputs from small sets.  "negative" is a panel whose closes
\* may be below zero.
ScenarioNames == {"free", "odd", "cash", "negative", "S1", "S2", "S3", "S4"}

EngineConfig(capital, maxpos, rm) ==
    [initial_capital |-> capital, max_positions |-> maxpos, risk_manager |-> rm]

\* A risk manager that sizes a position at the whole portfolio.
FullSizeRiskManager ==
    [DefaultRiskManager EXCEPT !.max_position_size_pct = 100,
                               !.max_portfolio_risk_pct = 10]

EngineConfigs(sc) ==
    CASE sc = "free" -> {EngineConfig(D(1000), n, DefaultRiskManager) : n \in 1..2}
      [] sc = "odd"  -> {EngineConfig(D(1000), 2, DefaultRiskManager)}
      [] sc = "cash" -> {EngineConfig(D(120), n, FullSizeRiskManager) : n \in 2..3}
      [] sc = "S3"   -> {EngineConfig(D(DefaultInitialCapital), 3, DefaultRiskManager)}
      [] sc = "S4"   -> {EngineConfig(D(100), DefaultMaxPositions, FullSizeRiskManager)}
      [] OTHER       -> {EngineConfig(D(DefaultInitialCapital), DefaultMaxPositions,
                                      DefaultRiskManager)}

PanelSymbols(sc) ==
    CASE sc \in {"free", "S4"} -> {"AAPL", "MSFT"}
      [] sc = "cash" -> {"AAPL", "MSFT", "GOOG"}
      [] sc = "S3" -> Symbols
      [] OTHER -> {"AAPL"}

Option(S) == {{}} \cup {{x} : x \in S}

DateChoice(all_dates, start_date, end_date) ==
    [all_dates |-> all_dates, start_date |-> start_date, end_date |-> end_date]

\* The union of the panels' dates and the start_date, end_date arguments
\* ({} is None).
DateChoices(sc) ==
    CASE sc = "free" ->
           {DateChoice(1..n, {}, {}) : n \in 0..MaxDate}
           \cup {DateChoice({1, MaxDate}, {}, {})}
           \cup {DateChoice(1..MaxDate, s, e) : s \in Option({2}), e \in Option({2})}
      [] sc \in {"S1", "S2"} -> {DateChoice(1..10, {}, {})}
      [] OTHER -> {DateChoice(1..2, {}, {})}

S1Closes == <<100, 102, 105, 110, 115, 120, 125, 130, 135, 140>>

S2Closes == <<100, 105, 110, 108, 95, 85, 80, 75, 70, 65>>

S3Closes == [s \in Symbols |->
    CASE s = "AAPL" -> 100 [] s = "MSFT" -> 110 [] s = "GOOG" -> 120
      [] s = "AMZN" -> 130 [] s = "META" -> 140]

Bars(S) == {Bar(D(c)) : c \in S}

\* The rows the panels may hold at date d: NoBar where the symbol is not in
\* price_data or its panel has no row at d.
CloseChoices(sc, s, d) ==
    IF s \notin PanelSymbols(sc) THEN {NoBar}
    ELSE CASE sc = "free" ->
                IF s = "AAPL" THEN {NoBar} \cup Bars({80, 100, 115})
                ELSE {NoBar} \cup Bars({100})
           [] sc = "odd" -> Bars({100})
           [] sc = "negative" -> Bars({100, 0 - 5})
           [] sc = "cash" ->
                IF s = "AAPL" THEN Bars({40, 60})
                ELSE IF s = "MSFT" THEN Bars({50}) ELSE Bars({20})
           [] sc = "S1" -> Bars({S1Closes[d]})
           [] sc = "S2" -> Bars({S2Closes[d]})
           [] sc = "S3" -> Bars({S3Closes[s] + 2 * (d - 1)})
           [] sc = "S4" -> Bars({60})

\* Every processed date is a date of some panel.
BarChoices(sc, d) ==
    {b \in [Symbols -> UNION {CloseChoices(sc, s, d) : s \in Symbols}] :
        /\ \A s \in Symbols : b[s] \in CloseChoices(sc, s, d)
        /\ \E s \in Symbols : b[s].has}

\* ATR(14) at the date, read only for the symbols of open positions that have
\* a row at the date.  Panels of fewer than 14 rows have none.
AtrValues(sc) ==
    CASE sc = "free" -> {AtrNone, AtrNaN, AtrVal(D(5))}
      [] OTHER -> {AtrNone}

AtrChoices(sc, ps, b) ==
    {a \in [Symbols -> AtrValues(sc)] :
        \A s \in Symbols :
            (~(HasPosition(ps, s) /\ b[s].has)) => a[s] = AtrNone}

\* The scenarios in which run_backtest is called again on the same engine.
RerunScenarios == {"negative", "S1", "S2", "S3", "S4"}

SignalsGivenChoices(sc) == IF sc = "free" THEN BOOLEAN ELSE {TRUE}

Range(seq) == {seq[i] : i \in 1..Len(seq)}

SeqsUpTo(S, n) == UNION {[1..k -> S] : k \in 0..n}

S3Symbols == <<"AAPL", "MSFT", "GOOG", "AMZN", "META">>

\* signals.get(str(current_date), [])
SignalChoices(sc, d) ==
    CASE sc = "free" ->
           SeqsUpTo({Signal("AAPL", 80), Signal("MSFT", 80), Signal("MSFT", 70)},
                    MaxSignals)
      [] sc = "odd" ->
           SeqsUpTo({Signal(NoSymbol, 80), [symbol |-> "AAPL"],
                     [confidence |-> 90], Signal("GOOG", 90), Signal("AAPL", 70)},
                    MaxSignals)
      [] sc = "cash" ->
           SeqsUpTo({Signal("AAPL", 80), Signal("MSFT", 80), Signal("GOOG", 80),
                     Signal("GOOG", 70)}, MaxSignals)
      [] sc = "negative" -> SeqsUpTo({Signal("AAPL", 80)}, 1)
      [] sc \in {"S1", "S2"} ->
           IF d = 1 THEN {<<Signal("AAPL", 85)>>} ELSE {<<>>}
      [] sc = "S3" ->
           IF d = 1
           THEN {[i \in 1..5 |-> Signal(S3Symbols[i], 80)],
                 [i \in 1..5 |-> Signal(S3Symbols[i], 70 + 5 * ((i * 2) % 5))]}
           ELSE {<<>>}
      [] sc = "S4" ->
           IF d = 1 THEN {<<Signal("AAPL", 80), Signal("MSFT", 80)>>} ELSE {<<>>}

\* ---------------------------------------------------- PerformanceCalculator
\* A float that is a ratio num / den, or float("inf").
Fraction(num, den) == [kind |-> "ratio", num |-> num, den |-> den]

Infinity == [kind |-> "inf", num |-> 1, den |-> 0]

Abs(x) == IF x < 0 THEN 0 - x ELSE x

\* Trade.is_winner
is_winner(trade) == trade.profit_loss > 0

ProfitLosses(trade_list) == [i \in 1..Len(trade_list) |-> trade_list[i].profit_loss]

calculate_win_rate(trade_list) ==
    IF trade_list = <<>> THEN Fraction(0, 1)
    ELSE Fraction(Len(SelectSeq(trade_list, is_winner)), Len(trade_list))

\* The profit is set against the net result, not against the losses.
calculate_profit_factor_on_net(trade_list) ==
    LET gross_profit ==
            SumSeq(SelectSeq(ProfitLosses(trade_list), LAMBDA x : x > 0))
        gross_loss == Abs(SumSeq(ProfitLosses(trade_list)))
    IN IF gross_loss = 0
       THEN IF gross_profit > 0 THEN Infinity ELSE Fraction(0, 1)
       ELSE Fraction(gross_profit, gross_loss)

calculate_profit_factor(trade_list) ==
    LET gross_profit ==
            SumSeq(SelectSeq(ProfitLosses(trade_list), LAMBDA x : x > 0))
        gross_loss ==
            Abs(SumSeq(SelectSeq(ProfitLosses(trade_list), LAMBDA x : x < 0)))
    IN IF gross_loss = 0
       THEN IF gross_profit > 0 THEN Infinity ELSE Fraction(0, 1)
       ELSE Fraction(gross_profit, gross_loss)

\* The trade metrics of calculate_all_metrics.
calculate_all_metrics(trade_list) ==
    [win_rate |-> calculate_win_rate(trade_list),
     profit_factor |-> calculate_profit_factor(trade_list),
     total_trades |-> Len(trade_list),
     winning_trades |-> Len(SelectSeq(trade_list, is_winner)),
     losing_trades |-> Len(SelectSeq(trade_list, LAMBDA t : ~is_winner(t)))]

NoMetrics == calculate_all_metrics(<<>>)

\* ------------------------------------------------------------------ actions
NoBars == [s \in Symbols |-> NoBar]

NoAtrs == [s \in Symbols |-> AtrNone]

NoDrawdown == [num |-> 0, den |-> 1]

NoCall == [method |-> ""]

NoResults == [trades |-> <<>>, equity_curve |-> <<>>, open_positions |-> <<>>]

\* BacktestEngine.__init__
Init ==
    /\ scenario \in ScenarioNames
    /\ \E c \in EngineConfigs(scenario) :
          /\ initial_capital = c.initial_capital
          /\ max_positions = c.max_positions
          /\ risk_manager = c.risk_manager
    /\ cash = initial_capital
    /\ positions = <<>>
    /\ trades = <<>>
    /\ equity_curve = <<>>
    /\ peak_equity = initial_capital
    /\ n_entries = 0
    /\ n_removals = 0
    /\ pc = "idle"
    /\ panel_symbols = {}
    /\ signals_given = FALSE
    /\ trading_dates = <<>>
    /\ di = 0
    /\ bars = NoBars
    /\ atrs = NoAtrs
    /\ day_signals = <<>>
    /\ sorted_signals = <<>>
    /\ si = 0
    /\ portfolio_value = 0
    /\ current_drawdown = NoDrawdown
    /\ runs = 0
    /\ previous_results = NoResults
    /\ scan_pc = "idle"
    /\ symbol_data = <<>>
    /\ detect = <<>>
    /\ min_confidence = DefaultMinConfidence
    /\ all_results = <<>>
    /\ actionable = <<>>
    /\ metrics_pc = "idle"
    /\ metric_trades = <<>>
    /\ metrics = NoMetrics
    /\ call_pc = "idle"
    /\ call_args = NoCall
    /\ call_result = NoCall

run_history == <<runs, previous_results>>

config_vars == <<scenario, initial_capital, max_positions, risk_manager>>

entry_locals == <<day_signals, sorted_signals, si, portfolio_value, current_drawdown>>

SetPortfolio(pf) ==
    /\ cash' = pf.cash
    /\ positions' = pf.positions
    /\ trades' = pf.trades
    /\ n_entries' = pf.n_entries
    /\ n_removals' = pf.n_removals

OrDefault(opt, default) == IF opt = {} THEN default ELSE CHOOSE x \in opt : TRUE

\* The dates are walked from the latest to the earliest.
TradingDatesDescending(all_dates, start_date, end_date) ==
    LET sorted_dates == SortedSeqOf(all_dates)
        start == OrDefault(start_date, sorted_dates[1])
        end == OrDefault(end_date, sorted_dates[Len(sorted_dates)])
        kept == SelectSeq(sorted_dates, LAMBDA d : start <= d /\ d <= end)
    IN [i \in 1..Len(kept) |-> kept[Len(kept) + 1 - i]]

\* run_backtest's date list: the sorted union of the panels' dates within
\* [start, end].
TradingDates(all_dates, start_date, end_date) ==
    LET sorted_dates == SortedSeqOf(all_dates)
        start == OrDefault(start_date, sorted_dates[1])
        end == OrDefault(end_date, sorted_dates[Len(sorted_dates)])
    IN SelectSeq(sorted_dates, LAMBDA d : start <= d /\ d <= end)

\* run_backtest up to its main loop: reset(), then the date list.  It is
\* called on the engine as constructed or on one whose last call has
\* returned.
RunBacktest ==
    /\ \/ /\ pc = "idle"
          /\ previous_results' = previous_results
       \/ /\ pc = "done"
          /\ runs < MaxRuns
          /\ scenario \in RerunScenarios
          /\ previous_results' = get_results(Engine)
    /\ runs' = runs + 1
    /\ \E dc \in DateChoices(scenario), sg \in SignalsGivenChoices(scenario) :
          /\ signals_given' = sg
          /\ IF dc.all_dates = {}
             THEN /\ panel_symbols' = {}
                  /\ trading_dates' = <<>>
                  /\ pc' = "done"
             ELSE /\ panel_symbols' = PanelSymbols(scenario)
                  /\ trading_dates' =
                        TradingDates(dc.all_dates, dc.start_date, dc.end_date)
                  /\ pc' = "loop"
    /\ LET engine == reset(Engine)
       IN /\ cash' = engine.cash
          /\ positions' = engine.positions
          /\ trades' = engine.trades
          /\ equity_curve' = engine.equity_curve
          /\ peak_equity' = engine.peak_equity
    /\ n_entries' = 0
    /\ n_removals' = 0
    /\ di' = 0
    /\ UNCHANGED <<component_vars, config_vars, bars, atrs, entry_locals>>

\* for current_date in trading_dates: the next date.
NextDate ==
    /\ pc = "loop"
    /\ di < Len(trading_dates)
    /\ di' = di + 1
    /\ pc' = "update"
    /\ bars' = NoBars
    /\ atrs' = NoAtrs
    /\ day_signals' = <<>>
    /\ sorted_signals' = <<>>
    /\ si' = 0
    /\ portfolio_value' = 0
    /\ current_drawdown' = NoDrawdown
    /\ UNCHANGED <<component_vars, config_vars, run_history,
                   cash, positions, trades, equity_curve, peak_equity,
                   n_entries, n_removals, panel_symbols, signals_given,
                   trading_dates>>

\* The loop is over: return self._get_results().
GetResults ==
    /\ pc = "loop"
    /\ di >= Len(trading_dates)
    /\ pc' = "done"
    /\ UNCHANGED <<component_vars, config_vars, run_history,
                   cash, positions, trades, equity_curve, peak_equity,
                   n_entries, n_removals, panel_symbols, signals_given,
                   trading_dates, di, bars, atrs, entry_locals>>

\* _process_day, step A.
UpdatePositions ==
    /\ pc = "update"
    /\ \E b \in BarChoices(scenario, current_date) :
         \E a \in AtrChoices(scenario, positions, b) :
            /\ bars' = b
            /\ atrs' = a
            /\ positions' = update_positions(risk_manager, positions, current_date,
                                             panel_symbols, b, a)
    /\ pc' = "exits"
    /\ UNCHANGED <<component_vars, config_vars, run_history,
                   cash, trades, equity_curve, peak_equity,
                   n_entries, n_removals, panel_symbols, signals_given,
                   trading_dates, di, entry_locals>>

\* _process_day, step B.
CheckExits ==
    /\ pc = "exits"
    /\ SetPortfolio(check_exits(Portfolio, current_date))
    /\ pc' = "snapshot"
    /\ UNCHANGED <<component_vars, config_vars, run_history,
                   equity_curve, peak_equity, panel_symbols,
                   signals_given, trading_dates, di, bars, atrs, entry_locals>>

\* The entries are processed whether signals were given or not.
process_day_entries_always(given) == "entries"

\* `if signals:` at the end of _process_day: None and {} are both false.
process_day_entries(given) == IF given THEN "entries" ELSE "loop"

\* The peak follows the last portfolio value.
update_peak_to_last(peak, value) == value

\* self.peak_equity = max(self.peak_equity, portfolio_value)
update_peak(peak, value) == Max(peak, value)

\* _process_day, step C, and the test `if signals:`.
Snapshot ==
    /\ pc = "snapshot"
    /\ LET value == calculate_portfolio_value(Portfolio)
       IN /\ equity_curve' = Append(equity_curve, value)
          /\ peak_equity' = update_peak(peak_equity, value)
    /\ pc' = process_day_entries(signals_given)
    /\ UNCHANGED <<component_vars, config_vars, run_history,
                   cash, positions, trades, n_entries, n_removals,
                   panel_symbols, signals_given, trading_dates, di, bars, atrs,
                   entry_locals>>

\* _process_entries up to its loop: the day's signals, sorted, and the
\* portfolio value and drawdown the whole loop uses.
ProcessEntries ==
    /\ pc = "entries"
    /\ \E sigs \in SignalChoices(scenario, current_date) :
          /\ day_signals' = sigs
          /\ sorted_signals' = SortByConfidence(sigs)
          /\ pc' = IF sigs = <<>> THEN "loop" ELSE "entry_loop"
    /\ portfolio_value' = calculate_portfolio_value(Portfolio)
    /\ current_drawdown' = calculate_current_drawdown(Portfolio, peak_equity)
    /\ si' = 1
    /\ UNCHANGED <<component_vars, config_vars, run_history,
                   cash, positions, trades, equity_curve, peak_equity,
                   n_entries, n_removals, panel_symbols, signals_given,
                   trading_dates, di, bars, atrs>>

\* One iteration of the loop over sorted_signals.
ProcessSignal ==
    /\ pc = "entry_loop"
    /\ LET r == process_signal(Portfolio, sorted_signals[si])
       IN /\ SetPortfolio(r.pf)
          /\ IF r.brk \/ si = Len(sorted_signals)
             THEN pc' = "loop" /\ si' = si
             ELSE pc' = "entry_loop" /\ si' = si + 1
    /\ UNCHANGED <<component_vars, config_vars, run_history,
                   equity_curve, peak_equity, panel_symbols,
                   signals_given, trading_dates, di, bars, atrs, day_signals,
                   sorted_signals, portfolio_value, current_drawdown>>

Next ==
    \/ RunBacktest
    \/ NextDate
    \/ GetResults
    \/ UpdatePositions
    \/ CheckExits
    \/ Snapshot
    \/ ProcessEntries
    \/ ProcessSignal

Spec == Init /\ [][Next]_vars

\* ----------------------------------------------------------- PatternScanner
\* self.detectors: a scanner built with a list of two detectors.
Detectors == <<"TrendTemplate", "VCP">>

DetectorIndices == 1..Len(Detectors)

PatternResult(pattern_type, symbol, confidence_score, confirmed, meets) ==
    [pattern_type |-> pattern_type, symbol |-> symbol,
     confidence_score |-> confidence_score, confirmed |-> confirmed,
     meets_trend_template |-> meets]

NoPattern == PatternResult("", NoSymbol, 0, FALSE, FALSE)

\* What detector.detect(symbol, data) does: it returns None, returns a
\* PatternResult or raises an Exception.
ReturnsNone == [kind |-> "None", result |-> NoPattern]

Raises == [kind |-> "Raises", result |-> NoPattern]

Returns(result) == [kind |-> "Result", result |-> result]

\* The try/except around detector.detect is left out.
scan_detector_propagates(results, outcome) ==
    CASE outcome.kind = "Result" ->
           [results |-> Append(results, outcome.result), raised |-> FALSE]
      [] outcome.kind = "Raises" -> [results |-> results, raised |-> TRUE]
      [] OTHER -> [results |-> results, raised |-> FALSE]

\* One iteration of scan_symbol's loop over the detectors.
scan_detector(results, outcome) ==
    CASE outcome.kind = "Result" ->
           [results |-> Append(results, outcome.result), raised |-> FALSE]
      [] OTHER -> [results |-> results, raised |-> FALSE]

\* scan_symbol's loop from the detector at index k.
RECURSIVE scan_detectors(_, _, _)
scan_detectors(results, outcomes, k) ==
    IF k > Len(Detectors) THEN [results |-> results, raised |-> FALSE]
    ELSE LET r == scan_detector(results, outcomes[k])
         IN IF r.raised THEN r ELSE scan_detectors(r.results, outcomes, k + 1)

scan_symbol(outcomes) == scan_detectors(<<>>, outcomes, 1)

\* scan_universe's loop over symbol_data.items(): all_results is the
\* sequence of the (symbol, patterns) items in insertion order.
RECURSIVE scan_universe(_, _)
scan_universe(universe, outcomes) ==
    IF universe = <<>> THEN [results |-> <<>>, raised |-> FALSE]
    ELSE LET symbol == universe[Len(universe)]
             before == scan_universe(SubSeq(universe, 1, Len(universe) - 1),
                                     outcomes)
             patterns == scan_symbol(outcomes[symbol])
         IN IF before.raised THEN before
            ELSE IF patterns.raised
            THEN [results |-> before.results, raised |-> TRUE]
            ELSE IF patterns.results = <<>> THEN before
            ELSE [results |-> Append(before.results,
                                     [symbol |-> symbol,
                                      patterns |-> patterns.results]),
                  raised |-> FALSE]

\* The patterns of all_results.items(), one after the other.
RECURSIVE AllPatterns(_)
AllPatterns(results) ==
    IF results = <<>> THEN <<>>
    ELSE Head(results).patterns \o AllPatterns(Tail(results))

\* The two nested tests of get_actionable_setups.
is_actionable(pattern, threshold) ==
    /\ pattern.confidence_score >= threshold
    /\ pattern.confirmed \/ pattern.meets_trend_template

RECURSIVE InsertByConfidenceScore(_, _)
InsertByConfidenceScore(sorted, pattern) ==
    IF sorted = <<>> THEN <<pattern>>
    ELSE IF Head(sorted).confidence_score >= pattern.confidence_score
         THEN <<Head(sorted)>> \o InsertByConfidenceScore(Tail(sorted), pattern)
         ELSE <<pattern>> \o sorted

\* actionable.sort(key=lambda p: p.confidence_score, reverse=True): a stable
\* sort on the confidence alone.
RECURSIVE SortByConfidenceScore(_)
SortByConfidenceScore(patterns) ==
    IF patterns = <<>> THEN <<>>
    ELSE InsertByConfidenceScore(
             SortByConfidenceScore(SubSeq(patterns, 1, Len(patterns) - 1)),
             patterns[Len(patterns)])

get_actionable_setups(universe, outcomes, threshold) ==
    LET scanned == scan_universe(universe, outcomes)
    IN [all_results |-> scanned.results,
        actionable |->
            IF scanned.raised THEN <<>>
            ELSE SortByConfidenceScore(
                     SelectSeq(AllPatterns(scanned.results),
                               LAMBDA p : is_actionable(p, threshold))),
        raised |-> scanned.raised]

\* The symbols a universe is made of.
ScanSymbols == {S3Symbols[i] : i \in 1..MaxUniverse}

\* A dict of symbols: its keys are distinct and iterate in insertion order.
Universes ==
    {u \in SeqsUpTo(ScanSymbols, MaxUniverse) :
        \A i, j \in 1..Len(u) : (i # j) => u[i] # u[j]}

\* What a detector may answer, but for its name and the symbol.
Answer(kind, confidence_score, confirmed, meets_trend_template) ==
    [kind |-> kind, confidence_score |-> confidence_score,
     confirmed |-> confirmed, meets_trend_template |-> meets_trend_template]

Answers ==
    {Answer("None", 0, FALSE, FALSE), Answer("Raises", 0, FALSE, FALSE),
     Answer("Result", 80, TRUE, FALSE), Answer("Result", 80, FALSE, TRUE),
     Answer("Result", 70, TRUE, FALSE), Answer("Result", 80, FALSE, FALSE)}

DetectOutcome(symbol, k, answer) ==
    CASE answer.kind = "None" -> ReturnsNone
      [] answer.kind = "Raises" -> Raises
      [] OTHER -> Returns(PatternResult(Detectors[k], symbol,
                                        answer.confidence_score,
                                        answer.confirmed,
                                        answer.meets_trend_template))

DetectChoices(universe) ==
    {[symbol \in Range(universe) |->
         [k \in DetectorIndices |-> DetectOutcome(symbol, k, a[symbol][k])]] :
       a \in [Range(universe) -> [DetectorIndices -> Answers]]}

MinConfidenceChoices == {DefaultMinConfidence, 80}

engine_vars ==
    <<config_vars, cash, positions, trades, equity_curve, peak_equity,
      n_entries, n_removals, pc, panel_symbols, signals_given, trading_dates,
      di, bars, atrs, entry_locals, run_history>>

\* PatternScanner.scan_universe(symbol_data)
ScanUniverse ==
    /\ scan_pc = "idle"
    /\ \E u \in Universes : \E d \in DetectChoices(u) :
          LET scanned == scan_universe(u, d)
          IN /\ symbol_data' = u
             /\ detect' = d
             /\ all_results' = scanned.results
             /\ scan_pc' = IF scanned.raised THEN "raised" ELSE "scanned"
    /\ UNCHANGED <<min_confidence, actionable, engine_vars, metrics_vars, call_vars>>

\* PatternScanner.get_actionable_setups(symbol_data, min_confidence)
GetActionableSetups ==
    /\ scan_pc = "idle"
    /\ \E u \in Universes : \E d \in DetectChoices(u) :
          \E threshold \in MinConfidenceChoices :
             LET setups == get_actionable_setups(u, d, threshold)
             IN /\ symbol_data' = u
                /\ detect' = d
                /\ min_confidence' = threshold
                /\ all_results' = setups.all_results
                /\ actionable' = setups.actionable
                /\ scan_pc' = IF setups.raised THEN "raised" ELSE "returned"
    /\ UNCHANGED <<engine_vars, metrics_vars, call_vars>>

ScanNext ==
    \/ ScanUniverse
    \/ GetActionableSetups

\* A scanner next to an engine that is not run.
ScanInit == scenario = "S1" /\ Init

ScanSpec == ScanInit /\ [][ScanNext]_vars

\* A trade as the calculator reads it.
TradeWith(profit_loss) == [profit_loss |-> profit_loss]

\* The sample trades of the calculator's tests.
SampleTrades == <<TradeWith(D(1000)), TradeWith(0 - D(500)), TradeWith(D(1500))>>

TradeChoices ==
    SeqsUpTo(Range(SampleTrades) \cup {TradeWith(0), TradeWith(0 - D(1000))},
             MaxTrades)

\* PerformanceCalculator.calculate_all_metrics on a list of trades.
CalculateAllMetrics ==
    /\ metrics_pc = "idle"
    /\ \E ts \in TradeChoices :
          /\ metric_trades' = ts
          /\ metrics' = calculate_all_metrics(ts)
    /\ metrics_pc' = "returned"
    /\ UNCHANGED <<scanner_vars, engine_vars, call_vars>>

MetricsNext == CalculateAllMetrics

\* A calculator next to an engine that is not run.
MetricsInit == scenario = "S1" /\ Init

MetricsSpec == MetricsInit /\ [][MetricsNext]_vars

\* ------------------------------------------------- _check_exits on its own
\* A position bought at 100 on date 1 and marked on date 2, with the stop it
\* has been given since.
HeldPosition(symbol, stop_loss, price) ==
    LET bought == NewPosition(symbol, 1, D(100), 1, stop_loss,
                              calculate_take_profit(risk_manager, D(100)))
    IN update_price(bought, price, 2)

HeldPositions(symbol) ==
    {HeldPosition(symbol, D(stop_loss), D(price)) :
        stop_loss \in {90, 110, 130}, price \in {100, 105, 125, 135}}

\* The positions an engine is handed before _check_exits is called on it.
HeldChoices ==
    {<<p>> : p \in HeldPositions("AAPL")}
    \cup {<<p, q>> : p \in HeldPositions("AAPL"), q \in HeldPositions("MSFT")}

\* engine.positions is filled by the caller, marked at date 2.
PlacePositions ==
    /\ pc = "idle"
    /\ \E ps \in HeldChoices :
          /\ positions' = ps
          /\ n_entries' = Len(ps)
    /\ trading_dates' = <<1, 2>>
    /\ di' = 2
    /\ pc' = "exits"
    /\ UNCHANGED <<component_vars, config_vars, run_history, cash,
                   trades, equity_curve, peak_equity, n_removals, panel_symbols,
                   signals_given, bars, atrs, entry_locals>>

ExitNext ==
    \/ PlacePositions
    \/ CheckExits

\* An engine as constructed, with the default risk manager.
ExitInit == scenario = "S1" /\ Init

ExitSpec == ExitInit /\ [][ExitNext]_vars

\* ------------------------------------------------- RiskManager, called alone
\* The risk managers of the sizing tests: the default one, one bound by the
\* position size (10 %, 5 %) and one bound by the risk (50 %, 2 %).
SizingRiskManagers ==
    {DefaultRiskManager,
     [DefaultRiskManager EXCEPT !.max_position_size_pct = 10,
                                !.max_portfolio_risk_pct = 5],
     [DefaultRiskManager EXCEPT !.max_position_size_pct = 50,
                                !.max_portfolio_risk_pct = 2]}

SizingPortfolioValues == {D(0), D(1000), D(100000)}

SizingEntryPrices == {D(30), D(100)}

SizingStopPrices == {D(50), D(90), D(95), D(100), D(110)}

\* RiskManager.calculate_position_size(portfolio_value, entry_price,
\* stop_loss_price)
CalculatePositionSize ==
    /\ call_pc = "idle"
    /\ \E rm \in SizingRiskManagers : \E pv \in SizingPortfolioValues :
          \E entry_price \in SizingEntryPrices : \E stop \in SizingStopPrices :
             /\ call_args' = [method |-> "calculate_position_size", rm |-> rm,
                              portfolio_value |-> pv, entry_price |-> entry_price,
                              stop_loss_price |-> stop]
             /\ call_result' =
                    [method |-> "calculate_position_size",
                     value |-> calculate_position_size(rm, pv, entry_price, stop)]
    /\ call_pc' = "returned"
    /\ UNCHANGED <<scanner_vars, metrics_vars, engine_vars>>

\* A long position bought at 100 whose stop is where it was set or raised to.
TrailedPositions ==
    {NewPosition("AAPL", 100, D(100), 1, D(stop_loss),
                 calculate_take_profit(DefaultRiskManager, D(100))) :
        stop_loss \in {90, 110}}

TrailingPrices == {D(100), D(105), D(115), D(120), D(130)}

TrailingAtrs ==
    {AtrNone, AtrNaN, AtrVal(0), AtrVal(0 - D(2)), AtrVal(D(2)), AtrVal(D(5)),
     AtrVal(D(20))}

\* RiskManager.update_trailing_stop(position, current_price, atr)
UpdateTrailingStop ==
    /\ call_pc = "idle"
    /\ \E position \in TrailedPositions : \E price \in TrailingPrices :
          \E atr \in TrailingAtrs :
             /\ call_args' = [method |-> "update_trailing_stop",
                              rm |-> DefaultRiskManager, position |-> position,
                              current_price |-> price, atr |-> atr]
             /\ call_result' =
                    [method |-> "update_trailing_stop",
                     value |-> update_trailing_stop(DefaultRiskManager, position,
                                                    price, atr)]
    /\ call_pc' = "returned"
    /\ UNCHANGED <<scanner_vars, metrics_vars, engine_vars>>

RiskNext ==
    \/ CalculatePositionSize
    \/ UpdateTrailingStop

\* A risk manager next to an engine that is not run.
RiskInit == scenario = "S1" /\ Init

RiskSpec == RiskInit /\ [][RiskNext]_vars

\* The engine, and the sizing function called on its own before any run.
SizingNext ==
    \/ call_pc = "idle" /\ Next
    \/ pc = "idle" /\ runs = 0 /\ CalculatePositionSize

SizingSpec == Init /\ [][SizingNext]_vars

\* ------------------------------------------------- TrendTemplateDetector
\* A cell of a DataFrame: a number or NaN.
Num(x) == [kind |-> "value", v |-> x]

NaN == [kind |-> "NaN", v |-> 0]

isna(cell) == cell.kind = "NaN"

required_cols ==
    {"close", "sma_50", "sma_150", "sma_200", "week_52_high", "week_52_low"}

\* data['sma_200'].iloc[-20] of a frame of at least twenty rows.
past_sma_200(rows) == rows[Len(rows) - 20 + 1].sma_200

\* TrendTemplateDetector.detect(symbol, data): data is a frame with the
\* given columns, its rows in date order.
detect_trend_template(symbol, data) ==
    IF data.rows = <<>> THEN ReturnsNone
    ELSE
      LET current == data.rows[Len(data.rows)]
      IN IF \E col \in required_cols : col \notin data.columns \/ isna(current[col])
         THEN ReturnsNone
         ELSE
           LET close == current.close.v
               sma_50 == current.sma_50.v
               sma_150 == current.sma_150.v
               sma_200 == current.sma_200.v
               week_52_high == current.week_52_high.v
               week_52_low == current.week_52_low.v
               c1 == close > sma_150 /\ close > sma_200
               c2 == sma_150 > sma_200
               c3 == IF Len(data.rows) >= 20
                     THEN IF ~isna(past_sma_200(data.rows))
                          THEN sma_200 > past_sma_200(data.rows).v
                          ELSE FALSE
                     ELSE FALSE
               c4 == sma_50 > sma_150 /\ sma_50 > sma_200
               c5 == close > sma_50
               c6 == close * 100 >= 130 * week_52_low
               c7 == close * 100 >= 75 * week_52_high
               c8 == IF "mansfield_rs" \in data.columns /\ ~isna(current.mansfield_rs)
                     THEN current.mansfield_rs.v > 0
                     ELSE TRUE
               all_criteria_met == c1 /\ c2 /\ c3 /\ c4 /\ c5 /\ c6 /\ c7 /\ c8
           IN IF all_criteria_met
              THEN Returns(PatternResult("TREND_TEMPLATE", symbol,
                                         IF c8 THEN 90 ELSE 70, TRUE, TRUE))
              ELSE ReturnsNone

\* The last row of a frame that meets every criterion, as in the detector's
\* tests: close > SMA50 > SMA150 > SMA200, close within 25 % of the high and
\* 30 % over the low, positive Mansfield RS.
PerfectRow ==
    [close |-> Num(135), sma_50 |-> Num(130), sma_150 |-> Num(120),
     sma_200 |-> Num(110), week_52_high |-> Num(140), week_52_low |-> Num(50),
     mansfield_rs |-> Num(1)]

\* Last rows that differ from the perfect one in one cell.
LastRows ==
    {PerfectRow,
     [PerfectRow EXCEPT !.close = Num(115)],
     [PerfectRow EXCEPT !.close = Num(125)],
     [PerfectRow EXCEPT !.close = NaN],
     [PerfectRow EXCEPT !.sma_150 = Num(105)],
     [PerfectRow EXCEPT !.sma_50 = Num(115)],
     [PerfectRow EXCEPT !.week_52_low = Num(110)],
     [PerfectRow EXCEPT !.week_52_high = Num(200)]}

MansfieldCells == {Num(1), Num(0), Num(0 - 1), NaN}

ColumnChoices ==
    {required_cols \cup {"mansfield_rs"}, required_cols,
     (required_cols \ {"sma_50"}) \cup {"mansfield_rs"}}

\* The SMA200 of an earlier row: below, at or above the last row's, or not
\* yet defined.
PastCells == {Num(100), Num(110), Num(120), NaN}

FrameLengths == {0, 1, 19, 20, 21, 30}

\* A frame of n rows whose SMA200 is past20 in the row iloc[-20], past21 in
\* the row iloc[-21] and 100 in the other earlier rows.
Frame(n, columns, last, past20, past21) ==
    [columns |-> columns,
     rows |-> [i \in 1..n |->
                  IF i = n THEN last
                  ELSE [PerfectRow EXCEPT
                          !.sma_200 = IF i = n - 20 + 1 THEN past20
                                      ELSE IF i = n - 21 + 1 THEN past21
                                      ELSE Num(100)]]]

\* TrendTemplateDetector().detect("TEST", data)
DetectTrendTemplate ==
    /\ call_pc = "idle"
    /\ \E n \in FrameLengths : \E columns \in ColumnChoices :
          \E last \in LastRows : \E rs \in MansfieldCells :
             \E past20 \in PastCells : \E past21 \in PastCells :
                LET data == Frame(n, columns, [last EXCEPT !.mansfield_rs = rs],
                                  past20, past21)
                IN /\ call_args' = [method |-> "detect", symbol |-> "TEST",
                                    data |-> data]
                   /\ call_result' = [method |-> "detect",
                                      value |-> detect_trend_template("TEST", data)]
    /\ call_pc' = "returned"
    /\ UNCHANGED <<scanner_vars, metrics_vars, engine_vars>>

TrendNext == DetectTrendTemplate

\* A detector next to an engine that is not run.
TrendInit == scenario = "S1" /\ Init

TrendSpec == TrendInit /\ [][TrendNext]_vars

\* ------------------------------------------------------------------- claims
PositionIndices == 1..Len(positions)

OpenedToday(p) == di >= 1 /\ p.entry_date = current_date

\* The shares the sizing rule asks for at the day's portfolio value.
SizedShares(entry_price) ==
    calculate_position_size(risk_manager, portfolio_value, entry_price,
                            calculate_initial_stop_loss(risk_manager, entry_price))

\* C1: cash is never negative, after every step of every day and after every
\* single entry.
CashNonNegative == cash >= 0

\* An entry was cut down to the cash at hand.
CashNonNegativeWitness ==
    /\ pc \in {"entry_loop", "loop"}
    /\ \E i \in PositionIndices :
          /\ OpenedToday(positions[i])
          /\ positions[i].shares < SizedShares(positions[i].entry_price)

\* C2: from the snapshot of a date to the end of that date, the equity
\* observation of the date is the cash plus the marked value of the open
\* positions, and there is one observation per processed date.
EquityAccounting ==
    (pc \in {"entries", "entry_loop", "loop"} /\ di >= 1) =>
        /\ Len(equity_curve) = di
        /\ equity_curve[di] =
              cash + SumSeq([i \in PositionIndices |->
                               positions[i].shares * positions[i].current_price])

\* The day is over with a position opened on it and an older position whose
\* price has moved.
EquityAccountingWitness ==
    /\ pc = "loop"
    /\ \E i \in PositionIndices : OpenedToday(positions[i])
    /\ \E i \in PositionIndices :
          positions[i].current_price # positions[i].entry_price

SamePosition(p, q) == p.symbol = q.symbol /\ p.entry_date = q.entry_date

\* C3: no step lowers the stop of a position that stays open.
TrailingStopMonotone ==
    [][\A i \in 1..Len(positions) : \A j \in 1..Len(positions') :
          SamePosition(positions[i], positions'[j]) =>
              positions'[j].stop_loss >= positions[i].stop_loss]_vars

\* A raised stop is kept on a day whose close is back below it.
TrailingStopMonotoneWitness ==
    /\ pc = "exits"
    /\ \E i \in PositionIndices :
          /\ positions[i].stop_loss >
                calculate_initial_stop_loss(risk_manager, positions[i].entry_price)
          /\ positions[i].current_price < positions[i].stop_loss

\* C4: the open positions never outnumber max_positions.
PositionCap == Len(positions) <= max_positions

\* The cap cut the day's loop short of a signal that had a bar and no
\* position.
PositionCapWitness ==
    /\ pc = "loop"
    /\ Len(positions) = max_positions
    /\ \E k \in 1..Len(sorted_signals) :
          LET symbol == Get(sorted_signals[k], "symbol", NoSymbol)
          IN /\ symbol \in panel_symbols
             /\ bars[symbol].has
             /\ ~HasPosition(positions, symbol)
             /\ SizedShares(bars[symbol].close) > 0

\* C5: there is one trade per removal of a position and none else, no
\* position yields two trades, and every entry is either open or traded.
SingleExitPerPosition ==
    /\ Len(trades) = n_removals
    /\ n_entries = Len(trades) + Len(positions)
    /\ \A i, j \in 1..Len(trades) :
          (i # j) => ~SamePosition(trades[i], trades[j])
    /\ \A i \in 1..Len(trades) : \A j \in PositionIndices :
          ~SamePosition(trades[i], positions[j])

\* Two positions were closed and one is open.
SingleExitPerPositionWitness ==
    /\ Len(trades) >= 2
    /\ Len(positions) >= 1

PhaseRank(p) ==
    CASE p = "idle" -> 0
      [] p = "update" -> 1
      [] p = "exits" -> 2
      [] p = "snapshot" -> 3
      [] p \in {"entries", "entry_loop"} -> 4
      [] p = "loop" -> 5
      [] p = "done" -> 6

Marked(p, q) ==
    \/ p.current_price # q.current_price
    \/ p.current_date # q.current_date
    \/ p.stop_loss # q.stop_loss

\* C6: the dates of a run are processed in strictly ascending order, each with one
\* equity observation, and within a date every mark comes in step (a), every
\* exit in step (b), the observation in step (c) and every entry in step (d),
\* the steps following one another in that order.
StepOrdering ==
    /\ [](/\ \A i \in 1..(Len(trading_dates) - 1) :
                trading_dates[i] < trading_dates[i + 1]
          /\ Len(equity_curve) =
                IF pc \in {"update", "exits", "snapshot"} THEN di - 1 ELSE di)
    /\ [][(pc # "done") =>
          /\ (di' = di) => PhaseRank(pc') >= PhaseRank(pc)
          /\ (di' # di) => (di' = di + 1 /\ pc' = "update")
          /\ (\E i \in 1..Len(positions) : \E j \in 1..Len(positions') :
                 SamePosition(positions[i], positions'[j])
                 /\ Marked(positions[i], positions'[j])) => pc = "update"
          /\ (trades' # trades) => pc = "exits"
          /\ (equity_curve' # equity_curve) =>
                (pc = "snapshot" /\ Len(equity_curve') = Len(equity_curve) + 1)
          /\ (n_entries' # n_entries) => pc = "entry_loop"]_vars

\* The third date ends after a mark, an exit, an observation and an entry.
StepOrderingWitness ==
    /\ pc = "loop"
    /\ di = 3
    /\ Len(equity_curve) = 3
    /\ \E k \in 1..Len(trades) : trades[k].exit_date = current_date
    /\ \E i \in PositionIndices : OpenedToday(positions[i])
    /\ \E i \in PositionIndices : positions[i].entry_date < current_date

Crossing(p) ==
    p.current_price <= p.stop_loss \/ p.current_price >= p.take_profit

\* C7: step (b) closes exactly the positions whose marked close is at or
\* below the stop or at or above the target, at that day's close and date,
\* later than the entry date; no other step of a run closes a position, and no
\* position is left open across a crossing.  With the default settings and a
\* buy on day 1 the S1 closes end in one TAKE_PROFIT trade at 120 and the S2
\* closes in one STOP_LOSS trade at 85.
ExitOnFirstCrossing ==
    /\ []((pc # "exits") => \A i \in PositionIndices : ~Crossing(positions[i]))
    /\ []((pc = "done" /\ scenario = "S1") =>
            /\ Len(trades) = 1
            /\ trades[1].exit_reason = "TAKE_PROFIT"
            /\ trades[1].exit_price = D(120)
            /\ trades[1].exit_date = 6)
    /\ []((pc = "done" /\ scenario = "S2") =>
            /\ Len(trades) = 1
            /\ trades[1].exit_reason = "STOP_LOSS"
            /\ trades[1].exit_price = D(85)
            /\ trades[1].exit_date = 6)
    /\ [][(pc # "done") => \A i \in 1..Len(positions) :
            LET p == positions[i]
            IN IF pc = "exits" /\ Crossing(p)
               THEN /\ ~HasPosition(positions', p.symbol)
                    /\ \E k \in (Len(trades) + 1)..Len(trades') :
                          /\ trades'[k].symbol = p.symbol
                          /\ trades'[k].entry_date = p.entry_date
                          /\ trades'[k].exit_date = current_date
                          /\ trades'[k].exit_date > trades'[k].entry_date
                          /\ bars[p.symbol].has
                          /\ trades'[k].exit_price = bars[p.symbol].close
               ELSE \E j \in 1..Len(positions') :
                       SamePosition(p, positions'[j])]_vars

\* A stop-loss exit fired today next to a position that stays open.
ExitOnFirstCrossingWitness ==
    /\ pc = "snapshot"
    /\ \E k \in 1..Len(trades) :
          trades[k].exit_date = current_date /\ trades[k].exit_reason = "STOP_LOSS"
    /\ \E i \in PositionIndices : positions[i].current_date = current_date

IndexPermutations(n) ==
    {f \in [1..n -> 1..n] : \A i, j \in 1..n : (i # j) => f[i] # f[j]}

\* The orders of the day's signals that differ only among signals of equal
\* confidence.
TiePermutations(signals) ==
    {[i \in 1..Len(signals) |-> signals[f[i]]] :
        f \in {g \in IndexPermutations(Len(signals)) :
                 \A i \in 1..Len(signals) :
                    Confidence(signals[g[i]]) = Confidence(signals[i])}}

Outcome(pf) == [cash |-> pf.cash, positions |-> Range(pf.positions)]

\* C8: the positions and the cash a day's entries end with do not depend on
\* the input order of the signals of equal confidence.
SignalDeterminism ==
    (pc = "entry_loop" /\ si = 1) =>
        \A q \in TiePermutations(day_signals) :
            Outcome(run_entries(Portfolio, SortByConfidence(q)))
                = Outcome(run_entries(Portfolio, sorted_signals))

\* The confidence of the signal that opened the position in this symbol: the
\* highest among the day's signals for it.
OpeningConfidence(symbol) ==
    CHOOSE c \in {Confidence(day_signals[k]) : k \in 1..Len(day_signals)} :
        /\ \E k \in 1..Len(day_signals) :
              /\ Get(day_signals[k], "symbol", NoSymbol) = symbol
              /\ Confidence(day_signals[k]) = c
        /\ \A k \in 1..Len(day_signals) :
              Get(day_signals[k], "symbol", NoSymbol) = symbol
                  => Confidence(day_signals[k]) <= c

\* At the end of the day's entries: the signal has a bar, no position, a
\* positive size and a share of it is within the cash that is left.
FundableUnopened(signal) ==
    LET symbol == Get(signal, "symbol", NoSymbol)
    IN /\ symbol \in panel_symbols
       /\ bars[symbol].has
       /\ ~HasPosition(positions, symbol)
       /\ SizedShares(bars[symbol].close) > 0
       /\ bars[symbol].close <= cash

\* C9: at the end of a day's entries, a signal that could have been funded
\* and was not opened has a confidence no higher than that of any signal
\* opened that day; with the five symbols of S3 signalled on day 1 and
\* max_positions = 3 exactly 3 positions are opened, those of the three
\* highest confidences in that order.
AdmissionByConfidence ==
    /\ (pc = "loop" /\ di >= 1) =>
          \A k \in 1..Len(day_signals) : \A i \in PositionIndices :
              (FundableUnopened(day_signals[k]) /\ OpenedToday(positions[i]))
                  => Confidence(day_signals[k])
                        <= OpeningConfidence(positions[i].symbol)
    /\ (pc = "loop" /\ di = 1 /\ scenario = "S3") =>
          /\ Len(positions) = 3
          /\ n_entries = 3
          /\ (Confidence(day_signals[1]) # Confidence(day_signals[2])) =>
                [i \in 1..3 |-> positions[i].symbol] = <<"MSFT", "AMZN", "AAPL">>

\* The cap left fundable signals of lower confidence out, of five signals of
\* different confidences.
AdmissionByConfidenceWitness ==
    /\ pc = "loop"
    /\ di = 1
    /\ scenario = "S3"
    /\ Len(positions) = max_positions
    /\ \E k \in 1..Len(day_signals) : \E i \in PositionIndices :
          /\ FundableUnopened(day_signals[k])
          /\ Confidence(day_signals[k]) < OpeningConfidence(positions[i].symbol)

\* The signal at si passes every test of the loop up to the sizing.
Eligible(signal) ==
    LET symbol == Get(signal, "symbol", NoSymbol)
    IN /\ Len(positions) < max_positions
       /\ ~check_drawdown_limit(risk_manager, current_drawdown)
       /\ symbol # NoSymbol
       /\ ~HasPosition(positions, symbol)
       /\ symbol \in panel_symbols
       /\ bars[symbol].has

\* C10: an order whose sized cost exceeds the cash is cut to floor(cash /
\* entry) shares; when that is 0 the signal is skipped, cash and positions
\* stay as they are and the loop goes on to the next signal.  In S4 (capital
\* 100, two signals at 60, each sized to 1 share) the first is bought and the
\* second is skipped.
InsufficientCash ==
    /\ []((pc = "loop" /\ di = 1 /\ scenario = "S4") =>
            /\ SizedShares(D(60)) = 1
            /\ Len(positions) = 1
            /\ positions[1].symbol = "AAPL"
            /\ positions[1].shares = 1
            /\ cash = D(40)
            /\ n_entries = 1
            /\ si = 2)
    /\ [][(pc = "entry_loop" /\ Eligible(sorted_signals[si])) =>
            LET symbol == Get(sorted_signals[si], "symbol", NoSymbol)
                entry == bars[symbol].close
                sized == SizedShares(entry)
                reduced == cash \div entry
            IN (sized > 0 /\ sized * entry > cash) =>
                  IF reduced = 0
                  THEN /\ cash' = cash
                       /\ positions' = positions
                       /\ trades' = trades
                       /\ (si < Len(sorted_signals)) =>
                             (pc' = "entry_loop" /\ si' = si + 1)
                  ELSE /\ cash' = cash - reduced * entry
                       /\ Len(positions') = Len(positions) + 1
                       /\ positions'[Len(positions')].symbol = symbol
                       /\ positions'[Len(positions')].shares = reduced]_vars

\* An order was cut to nothing and skipped, and the loop has gone on to the
\* next signal of the day.
InsufficientCashWitness ==
    /\ pc = "entry_loop"
    /\ si = 2
    /\ Eligible(sorted_signals[1])
    /\ SizedShares(bars[sorted_signals[1].symbol].close) > 0
    /\ bars[sorted_signals[1].symbol].close > cash

\* C11: a symbol whose position was closed by the exits of a day has no
\* position opened on that same day.
NoSameDayReentry ==
    (di >= 1) =>
        \A i \in PositionIndices : \A k \in 1..Len(trades) :
            ~(/\ positions[i].entry_date = current_date
              /\ trades[k].exit_date = current_date
              /\ trades[k].symbol = positions[i].symbol)

\* The drawdown of the date's equity observation from the peak is at or over
\* the limit.
DrawdownAtLimit ==
    (peak_equity - equity_curve[di]) * 100
        >= risk_manager.max_drawdown_limit * peak_equity

\* C12: on a date whose equity observation is at or over the drawdown limit
\* below the peak, no position is opened whatever the signals are, the loop
\* over the signals is left at its first signal without a change of the
\* portfolio and the day ends; the positions with a bar that day were marked
\* at it and those that crossed were closed.
DrawdownGate ==
    /\ []((pc \in {"entries", "entry_loop", "loop"} /\ di >= 1
              /\ DrawdownAtLimit) =>
            /\ \A i \in PositionIndices :
                  /\ ~OpenedToday(positions[i])
                  /\ ~Crossing(positions[i])
                  /\ (positions[i].symbol \in panel_symbols
                         /\ bars[positions[i].symbol].has) =>
                        /\ positions[i].current_price
                              = bars[positions[i].symbol].close
                        /\ positions[i].current_date = current_date
            /\ (pc = "entry_loop") => si = 1)
    /\ [][(pc = "entry_loop" /\ DrawdownAtLimit) =>
            /\ pc' = "loop"
            /\ cash' = cash
            /\ positions' = positions
            /\ trades' = trades]_vars

\* A day over the limit ended with an exit made on it and a signal that had
\* a bar, no position, a positive size and the cash for a share.
DrawdownGateWitness ==
    /\ pc = "loop"
    /\ di >= 1
    /\ DrawdownAtLimit
    /\ \E k \in 1..Len(trades) : trades[k].exit_date = current_date
    /\ \E k \in 1..Len(day_signals) : FundableUnopened(day_signals[k])

\* The panel of the symbol has no row in the bars b.
NoBarFor(symbol, b) == symbol \notin panel_symbols \/ ~b[symbol].has

\* C13: on a processed date at which the panel of an open position's symbol
\* has no bar, step (a) leaves the position's current_price, current_date and
\* stop_loss as they were, and no later step of the date closes it or
\* changes it.
DataGap ==
    [][/\ (pc = "update") =>
             \A i \in PositionIndices :
                 NoBarFor(positions[i].symbol, bars') =>
                     /\ Len(positions') = Len(positions)
                     /\ positions'[i] = positions[i]
       /\ (pc \in {"exits", "snapshot", "entries", "entry_loop"}) =>
             \A i \in PositionIndices :
                 (NoBarFor(positions[i].symbol, bars)
                     /\ positions[i].entry_date < current_date) =>
                     /\ \E j \in 1..Len(positions') : positions'[j] = positions[i]
                     /\ \A k \in 1..Len(trades') :
                           SamePosition(trades'[k], positions[i]) => FALSE]_vars

\* A date ended with a position whose symbol had no bar on it, still open and
\* as it was marked on an earlier date, next to a position marked on the date.
DataGapWitness ==
    /\ pc = "loop"
    /\ di >= 2
    /\ \E i \in PositionIndices :
          /\ NoBarFor(positions[i].symbol, bars)
          /\ positions[i].current_date < current_date
    /\ \E i \in PositionIndices :
          /\ positions[i].entry_date < current_date
          /\ positions[i].current_date = current_date

\* A row read from the panels so far holds a price below zero.
NegativePriceRead == \E s \in Symbols : bars[s].has /\ bars[s].close < 0

\* C14: when a panel holds a negative price the run fails before any day is
\* processed: it has no equity observation, no entry and no trade.
InputShapeFailure ==
    NegativePriceRead =>
        /\ equity_curve = <<>>
        /\ n_entries = 0
        /\ trades = <<>>

\* What run_backtest returns when it returns now.
Results == get_results(Engine)

\* C15: when the day loop has ended, the positions still open are returned
\* as open_positions, none of them has a trade, the cash is the initial
\* capital plus the profit of the trades less the cost of the open positions
\* (their value is not credited), every trade is an exit of step (b), and the
\* return itself changes neither the cash, the positions nor the trades.
NoSyntheticExits ==
    /\ []((pc = "done") =>
            /\ Results.open_positions = positions
            /\ Results.trades = trades
            /\ \A i \in 1..Len(Results.open_positions) :
                  \A k \in 1..Len(Results.trades) :
                      ~SamePosition(Results.trades[k], Results.open_positions[i])
            /\ \A k \in 1..Len(Results.trades) :
                  Results.trades[k].exit_reason \in {"STOP_LOSS", "TAKE_PROFIT"}
            /\ Len(Results.trades) = n_removals
            /\ cash = initial_capital
                      + SumSeq([k \in 1..Len(trades) |-> trades[k].profit_loss])
                      - SumSeq([i \in PositionIndices |->
                                  positions[i].shares * positions[i].entry_price]))
    /\ [][(pc = "loop" /\ pc' = "done") =>
            /\ cash' = cash
            /\ positions' = positions
            /\ trades' = trades
            /\ equity_curve' = equity_curve]_vars

\* A run of several days has returned with a trade made and a position still
\* open whose marked price is not its entry price.
NoSyntheticExitsWitness ==
    /\ pc = "done"
    /\ di >= 2
    /\ Len(trades) >= 1
    /\ \E i \in PositionIndices :
          positions[i].current_price # positions[i].entry_price

\* C16: in a run without signals the positions and the trades stay empty,
\* the cash stays the initial capital and every equity observation is the
\* initial capital, after any number of days; a run without price data
\* returns no trades and an empty equity curve.
NoSignals ==
    /\ (pc # "idle" /\ ~signals_given) =>
          /\ positions = <<>>
          /\ trades = <<>>
          /\ cash = initial_capital
          /\ \A i \in 1..Len(equity_curve) : equity_curve[i] = initial_capital
    /\ (pc = "done" /\ panel_symbols = {}) =>
          /\ Results.trades = <<>>
          /\ Results.equity_curve = <<>>

\* The second day of a run without signals has ended.
NoSignalsWitness ==
    /\ pc = "loop"
    /\ ~signals_given
    /\ di >= 2
    /\ Len(equity_curve) = di

\* The scenarios whose panels and signals are the same in every run.
FixedInputScenarios == {"S1", "S2", "S4"}

\* C17: every run starts from the reset state, also on an engine that has
\* completed a backtest, and a second run with the panels, signals and
\* configuration of the first returns the trades, equity curve and open
\* positions the first returned.
RunDeterminism ==
    /\ (runs >= 1 /\ di = 0 /\ pc \in {"loop", "done"}) =>
          /\ cash = initial_capital
          /\ positions = <<>>
          /\ trades = <<>>
          /\ equity_curve = <<>>
          /\ peak_equity = initial_capital
    /\ (runs >= 2 /\ pc = "done" /\ scenario \in FixedInputScenarios) =>
          Results = previous_results

\* A second run has returned on an engine whose first run made a trade and
\* raised the peak.
RunDeterminismWitness ==
    /\ runs = 2
    /\ pc = "done"
    /\ scenario \in FixedInputScenarios
    /\ Len(previous_results.trades) >= 1
    /\ \E i \in 1..Len(previous_results.equity_curve) :
          previous_results.equity_curve[i] > initial_capital

\* The place of a symbol in lexical order.
LexRank(symbol) ==
    CASE symbol = "AAPL" -> 1 [] symbol = "AMZN" -> 2 [] symbol = "GOOG" -> 3
      [] symbol = "META" -> 4 [] symbol = "MSFT" -> 5

\* C18: get_actionable_setups returns exactly the scan results whose
\* confidence is at or over the threshold and that are confirmed or meet the
\* trend template, in descending confidence, results of equal confidence in
\* the lexical order of their symbols, whatever the iteration order of the
\* universe is.
ScannerGateAndOrder ==
    (scan_pc = "returned") =>
        /\ \A p \in Range(AllPatterns(all_results)) :
              (p \in Range(actionable)) <=>
                  /\ p.confidence_score >= min_confidence
                  /\ p.confirmed \/ p.meets_trend_template
        /\ Range(actionable) \subseteq Range(AllPatterns(all_results))
        /\ Cardinality(Range(actionable)) = Len(actionable)
        /\ \A i, j \in 1..Len(actionable) :
              (i < j) =>
                 \/ actionable[i].confidence_score > actionable[j].confidence_score
                 \/ /\ actionable[i].confidence_score = actionable[j].confidence_score
                    /\ LexRank(actionable[i].symbol) <= LexRank(actionable[j].symbol)
        /\ \A u \in Universes :
              (Range(u) = Range(symbol_data)) =>
                  get_actionable_setups(u, detect, min_confidence).actionable
                      = actionable

\* The same detectors, those that raise returning None instead.
Silenced(outcomes) ==
    [symbol \in DOMAIN outcomes |->
        [k \in DetectorIndices |->
            IF outcomes[symbol][k].kind = "Raises" THEN ReturnsNone
            ELSE outcomes[symbol][k]]]

\* The results of the detectors that returned one for the symbol, in the
\* order of the detectors.
Returned(symbol) ==
    LET answered == SelectSeq([k \in DetectorIndices |-> detect[symbol][k]],
                              LAMBDA o : o.kind = "Result")
    IN [i \in 1..Len(answered) |-> answered[i].result]

\* C19: a detector that raises on a symbol does not end the scan and yields
\* nothing; each symbol is given the results of its detectors that returned
\* one, and the scan and the setups are those of the same detectors with the
\* raising ones returning None.
DetectorFailureIsolation ==
    (scan_pc # "idle") =>
        /\ scan_pc # "raised"
        /\ \A s \in Range(symbol_data) :
              IF Returned(s) = <<>>
              THEN \A i \in 1..Len(all_results) : all_results[i].symbol # s
              ELSE \E i \in 1..Len(all_results) :
                      /\ all_results[i].symbol = s
                      /\ all_results[i].patterns = Returned(s)
        /\ \A i \in 1..Len(all_results) : all_results[i].symbol \in Range(symbol_data)
        /\ all_results = scan_universe(symbol_data, Silenced(detect)).results
        /\ (scan_pc = "returned") =>
              actionable =
                  get_actionable_setups(symbol_data, Silenced(detect),
                                        min_confidence).actionable

\* A scan has returned in which a detector raised on a symbol whose other
\* detector returned a result, and another symbol has results too.
DetectorFailureIsolationWitness ==
    /\ scan_pc = "returned"
    /\ Len(all_results) >= 2
    /\ \E s \in Range(symbol_data) : \E k, l \in DetectorIndices :
          /\ detect[s][k] = Raises
          /\ detect[s][l].kind = "Result"
          /\ actionable # <<>>

\* The sum of the profits and the sum of the losses, each as a positive
\* amount, of the trades given to the calculator.
GrossProfit ==
    SumSeq([i \in 1..Len(metric_trades) |-> Max(metric_trades[i].profit_loss, 0)])

GrossLoss ==
    SumSeq([i \in 1..Len(metric_trades) |->
               Max(0 - metric_trades[i].profit_loss, 0)])

\* C20: the profit factor of a list of trades is the sum of the profits over
\* the absolute sum of the losses, infinity when there is no loss and some
\* profit, and 0 when there is no profit, the empty list included; for the
\* sample trades of +1000, -500 and +1500 it is 5 and the win rate is 2/3.
ProfitFactor ==
    (metrics_pc = "returned") =>
        LET profit_factor == metrics.profit_factor
            win_rate == metrics.win_rate
        IN /\ (GrossLoss > 0) =>
                 /\ profit_factor.kind = "ratio"
                 /\ profit_factor.den > 0
                 /\ profit_factor.num * GrossLoss = GrossProfit * profit_factor.den
           /\ (GrossLoss = 0 /\ GrossProfit > 0) => profit_factor = Infinity
           /\ (GrossProfit = 0) =>
                 /\ profit_factor.kind = "ratio"
                 /\ profit_factor.den > 0
                 /\ profit_factor.num = 0
           /\ (metric_trades = SampleTrades) =>
                 /\ profit_factor.kind = "ratio"
                 /\ profit_factor.num = 5 * profit_factor.den
                 /\ win_rate.num * 3 = 2 * win_rate.den
                 /\ win_rate.den > 0

\* The calculator has returned the metrics of the three sample trades.
ProfitFactorWitness ==
    /\ metrics_pc = "returned"
    /\ metric_trades = SampleTrades
    /\ GrossProfit = D(2500)
    /\ GrossLoss = D(500)

\* The trades that the step adds for the position p.
NewTradesOf(p) ==
    {k \in (Len(trades) + 1)..Len(trades') : SamePosition(trades'[k], p)}

\* C21: the exit step closes a position at most once; a position whose
\* marked close is at or below its stop is closed as STOP_LOSS, also when the
\* close is at or above the target; it is closed as TAKE_PROFIT only when the
\* close is above the stop and at or above the target, and not at all
\* otherwise.
ExitPrecedence ==
    [][(pc = "exits") =>
          /\ \A i \in PositionIndices :
                LET p == positions[i]
                IN /\ Cardinality(NewTradesOf(p)) <= 1
                   /\ (p.current_price <= p.stop_loss) =>
                         \E k \in NewTradesOf(p) :
                            /\ trades'[k].exit_reason = "STOP_LOSS"
                            /\ trades'[k].exit_price = p.current_price
                   /\ (p.current_price > p.stop_loss
                          /\ p.current_price >= p.take_profit) =>
                         \E k \in NewTradesOf(p) :
                            /\ trades'[k].exit_reason = "TAKE_PROFIT"
                            /\ trades'[k].exit_price = p.current_price
                   /\ (p.current_price > p.stop_loss
                          /\ p.current_price < p.take_profit) =>
                         NewTradesOf(p) = {}
          /\ Len(trades') <= Len(trades) + Len(positions)]_vars

\* The exit step has closed as STOP_LOSS a position whose close was at or
\* above its target, and as TAKE_PROFIT another one.
ExitPrecedenceWitness ==
    /\ pc = "snapshot"
    /\ \E k \in 1..Len(trades) :
          /\ trades[k].exit_reason = "STOP_LOSS"
          /\ trades[k].exit_price
                >= calculate_take_profit(risk_manager, trades[k].entry_price)
    /\ \E k \in 1..Len(trades) : trades[k].exit_reason = "TAKE_PROFIT"

\* The largest of the equity observations.
MaxEquity ==
    CHOOSE v \in Range(equity_curve) : \A w \in Range(equity_curve) : w <= v

\* C22: once a day has been observed the peak is the largest equity
\* observation of the run, and within a run the peak never falls.
RunningPeak ==
    /\ []((equity_curve # <<>>) => peak_equity = MaxEquity)
    /\ [][(pc \notin {"idle", "done"}) => peak_equity' >= peak_equity]_vars

\* A day has ended below a peak that an earlier day had raised over the
\* initial capital.
RunningPeakWitness ==
    /\ pc = "loop"
    /\ di >= 2
    /\ peak_equity > initial_capital
    /\ equity_curve[di] < peak_equity
    /\ equity_curve[di] < initial_capital

\* The signal at si is for a symbol that has an open position, that is not
\* in price_data or that has no bar at the date.
Unenterable(signal) ==
    LET symbol == Get(signal, "symbol", NoSymbol)
    IN /\ symbol # NoSymbol
       /\ \/ \E i \in PositionIndices : positions[i].symbol = symbol
          \/ symbol \notin panel_symbols
          \/ ~bars[symbol].has

\* C23: no two open positions are in the same symbol; a signal that the loop
\* takes up (the cap and the drawdown gate leave it running) for a symbol
\* with an open position, a symbol absent from price_data or a symbol
\* without a bar at the date changes neither the cash nor any position, and
\* the loop goes on to the day's next signal.
OnePositionPerSymbol ==
    /\ [](\A i, j \in PositionIndices :
             (i # j) => positions[i].symbol # positions[j].symbol)
    /\ [][(/\ pc = "entry_loop"
           /\ Len(positions) < max_positions
           /\ current_drawdown.num * 100
                 < risk_manager.max_drawdown_limit * current_drawdown.den
           /\ Unenterable(sorted_signals[si])) =>
             /\ cash' = cash
             /\ positions' = positions
             /\ trades' = trades
             /\ n_entries' = n_entries
             /\ IF si < Len(sorted_signals)
                THEN pc' = "entry_loop" /\ si' = si + 1
                ELSE pc' = "loop"]_vars

\* The day's first signal was for a symbol held since an earlier day and was
\* skipped, and the day's second signal opened a position.
OnePositionPerSymbolWitness ==
    /\ pc = "loop"
    /\ di >= 2
    /\ Len(sorted_signals) = 2
    /\ \E i \in PositionIndices :
          /\ positions[i].symbol = Get(sorted_signals[1], "symbol", NoSymbol)
          /\ positions[i].entry_date < current_date
    /\ \E i \in PositionIndices :
          /\ positions[i].symbol = Get(sorted_signals[2], "symbol", NoSymbol)
          /\ OpenedToday(positions[i])

\* ---- C24
\* k is the floor of a / b, for b > 0.
IsFloor(k, a, b) == k * b <= a /\ a < (k + 1) * b

\* The call was calculate_position_size and has returned.
Sized == call_pc = "returned" /\ call_args.method = "calculate_position_size"

SizedByRisk ==
    [method |-> "calculate_position_size",
     rm |-> [DefaultRiskManager EXCEPT !.max_position_size_pct = 50,
                                       !.max_portfolio_risk_pct = 2],
     portfolio_value |-> D(100000), entry_price |-> D(100),
     stop_loss_price |-> D(95)]

SizedBySize ==
    [method |-> "calculate_position_size",
     rm |-> [DefaultRiskManager EXCEPT !.max_position_size_pct = 10,
                                       !.max_portfolio_risk_pct = 5],
     portfolio_value |-> D(100000), entry_price |-> D(100),
     stop_loss_price |-> D(50)]

\* C24: calculate_position_size returns a non-negative whole number of
\* shares: the smaller of floor(equity * size_pct / entry) and
\* floor(equity * risk_pct / (entry - stop)) when the entry is above the
\* stop, the first of the two alone otherwise (100 and 400 shares on the
\* tests' inputs); and every position the engine opens costs at most
\* size_pct of the day's equity and risks at most risk_pct of it down to its
\* stop.
PositionSizing ==
    /\ Sized =>
          LET a == call_args
              shares == call_result.value
              by_size == CHOOSE k \in 0..a.portfolio_value :
                             IsFloor(k, a.portfolio_value * a.rm.max_position_size_pct,
                                     100 * a.entry_price)
          IN /\ shares \in Nat
             /\ a.entry_price > a.stop_loss_price =>
                   \E by_risk \in 0..a.portfolio_value :
                      /\ IsFloor(by_risk,
                                 a.portfolio_value * a.rm.max_portfolio_risk_pct,
                                 100 * (a.entry_price - a.stop_loss_price))
                      /\ shares = Min(by_size, by_risk)
             /\ a.entry_price <= a.stop_loss_price => shares = by_size
             /\ a = SizedBySize => shares = 100
             /\ a = SizedByRisk => shares = 400
    /\ (pc \in {"entry_loop", "loop"} /\ di >= 1) =>
          \A i \in 1..Len(positions) :
             LET p == positions[i]
             IN OpenedToday(p) =>
                   /\ p.shares > 0
                   /\ p.shares * p.entry_price * 100
                          <= portfolio_value * risk_manager.max_position_size_pct
                   /\ p.shares * (p.entry_price - p.stop_loss) * 100
                          <= portfolio_value * risk_manager.max_portfolio_risk_pct
                   /\ portfolio_value = calculate_portfolio_value(Portfolio)

\* The risk limit binds: 400 shares where the size limit alone allows 500.
PositionSizingWitness ==
    /\ Sized
    /\ call_args = SizedByRisk
    /\ call_result.value = 400

\* ---- C25
\* The call was update_trailing_stop and has returned.
Trailed == call_pc = "returned" /\ call_args.method = "update_trailing_stop"

\* The gain of the price over the entry price is below the trigger.
BelowTrigger(a) ==
    (a.current_price - a.position.entry_price) * 100
        < a.rm.trailing_stop_trigger_pct * a.position.entry_price

\* An ATR that can be used: present, a number, and above zero.
UsableAtr(atr) == atr # AtrNone /\ atr # AtrNaN /\ atr.v > 0

\* C25: update_trailing_stop returns the stop unchanged while the gain is
\* below the trigger; from the trigger on it returns the larger of the stop
\* and a candidate, which is price - multiplier * ATR for a usable ATR and
\* price * (1 - initial_stop_loss_pct) when the ATR is absent, NaN or not
\* positive.
TrailingStopRule ==
    Trailed =>
       LET a == call_args
           stop == a.position.stop_loss
           new_stop == call_result.value
       IN /\ BelowTrigger(a) => new_stop = stop
          /\ ~BelowTrigger(a) =>
                \E candidate \in 0..a.current_price :
                   /\ UsableAtr(a.atr) =>
                         candidate + a.rm.trailing_stop_atr_multiplier * a.atr.v
                             = a.current_price
                   /\ ~UsableAtr(a.atr) =>
                         candidate * 100
                             = a.current_price * (100 - a.rm.initial_stop_loss_pct)
                   /\ new_stop = (IF candidate > stop THEN candidate ELSE stop)
          /\ (stop = D(90) /\ a.current_price = D(105) /\ a.atr = AtrVal(D(2)))
                => new_stop = D(90)
          /\ (stop = D(90) /\ a.current_price = D(120) /\ a.atr = AtrVal(D(5)))
                => new_stop = D(110)

\* A gain exactly at the trigger, no ATR yet: the stop is raised from 90 to
\* 90 % of the price.
TrailingStopRuleWitness ==
    /\ Trailed
    /\ call_args.current_price = D(115)
    /\ call_args.atr = AtrNaN
    /\ call_args.position.stop_loss = D(90)
    /\ call_result.value = D(103) + 5

\* ---- C26
\* The call was TrendTemplateDetector.detect and has returned.
Detected == call_pc = "returned" /\ call_args.method = "detect"

\* detect returned a PatternResult.
Emitted == call_result.value.kind = "Result"

\* The row the detector looks at, when the frame has one whose required
\* cells are all there.
LastRow == call_args.data.rows[Len(call_args.data.rows)]

Evaluable ==
    /\ call_args.data.rows # <<>>
    /\ \A col \in required_cols :
          col \in call_args.data.columns /\ LastRow[col] # NaN

\* Mansfield RS is available for the last row.
RSAvailable ==
    "mansfield_rs" \in call_args.data.columns /\ LastRow.mansfield_rs # NaN

\* Criteria 1, 2 and 4 to 7 on the last row.
PriceCriteria ==
    LET r == LastRow
    IN /\ r.close.v > r.sma_150.v /\ r.close.v > r.sma_200.v
       /\ r.sma_150.v > r.sma_200.v
       /\ r.sma_50.v > r.sma_150.v /\ r.sma_50.v > r.sma_200.v
       /\ r.close.v > r.sma_50.v
       /\ 10 * r.close.v >= 13 * r.week_52_low.v
       /\ 4 * r.close.v >= 3 * r.week_52_high.v

\* SMA200 of the last row is above the one of the row k rows before it.
Above(k) ==
    LET rows == call_args.data.rows
    IN /\ Len(rows) > k
       /\ rows[Len(rows) - k].sma_200 # NaN
       /\ LastRow.sma_200.v > rows[Len(rows) - k].sma_200.v

\* C26: a TREND_TEMPLATE result is emitted only if criteria 1, 2 and 4 to 7
\* hold and the Mansfield RS, when available, is positive, and it is emitted
\* whenever they hold with a rising SMA200; its confidence is 90 when the RS
\* was evaluated and 70 when the RS is absent or NaN.
TrendTemplateConfidence ==
    Detected =>
       /\ Emitted =>
             /\ Evaluable /\ PriceCriteria
             /\ RSAvailable => LastRow.mansfield_rs.v > 0
             /\ call_result.value.result.pattern_type = "TREND_TEMPLATE"
       /\ (/\ Evaluable /\ PriceCriteria /\ Above(19) /\ Above(20)
           /\ RSAvailable => LastRow.mansfield_rs.v > 0) => Emitted
       /\ Emitted =>
             call_result.value.result.confidence_score
                 = (IF RSAvailable THEN 90 ELSE 70)

\* ---- C27
\* C27: criterion 3 compares the SMA200 of the last bar (index n-1) with the
\* SMA200 twenty bars earlier (index n-21) and holds iff the former is
\* strictly greater: a result is emitted only then, and is emitted then when
\* the other criteria hold.
Criterion3Lookback ==
    Detected =>
       /\ Emitted => Above(20)
       /\ (/\ Evaluable /\ PriceCriteria /\ Above(20)
           /\ RSAvailable => LastRow.mansfield_rs.v > 0) => Emitted

\* ---- C28
\* What the open positions were bought for.
OpenCost == SumSeq([i \in 1..Len(positions) |->
                       positions[i].shares * positions[i].entry_price])

\* What the closed trades have won or lost in all.
RealisedProfit == SumSeq([i \in 1..Len(trades) |-> trades[i].profit_loss])

\* C28: in every state of a backtest the cash and the cost of the open
\* positions add up to the initial capital and the profit_loss of the trades,
\* each trade's profit_loss being shares * (exit_price - entry_price).
CashConservation ==
    /\ cash + OpenCost = initial_capital + RealisedProfit
    /\ \A i \in 1..Len(trades) :
          trades[i].profit_loss
              = trades[i].shares * (trades[i].exit_price - trades[i].entry_price)

\* A winning and a losing trade are closed and a position is open.
CashConservationWitness ==
    /\ positions # <<>>
    /\ \E i \in 1..Len(trades) : trades[i].profit_loss > 0
    /\ \E i \in 1..Len(trades) : trades[i].profit_loss < 0

\* ---- C29
\* The price the position is marked at lies strictly between its stop and
\* its target.
InBracket(p) == p.stop_loss < p.current_price /\ p.current_price < p.take_profit

\* A stop percentage strictly between 0 and 1 and a target above zero.
BracketConfig ==
    /\ 0 < risk_manager.initial_stop_loss_pct
    /\ risk_manager.initial_stop_loss_pct < 100
    /\ TargetPct > 0

\* Every position was bought and is marked at a close above zero.
PositiveCloses ==
    \A i \in 1..Len(positions) :
       positions[i].entry_price > 0 /\ positions[i].current_price > 0

\* C29: with closes above zero, a stop percentage strictly between 0 and 1
\* and a target above zero, every position that is open at the end of a
\* processed date is marked strictly between its stop and its target; step
\* (b) of the date removes exactly the positions that are not, each with a
\* trade.
EndOfDayBracket ==
    /\ [](BracketConfig /\ PositiveCloses /\ pc \in {"loop", "done"} =>
             \A i \in 1..Len(positions) : InBracket(positions[i]))
    /\ [][pc = "exits" =>
             /\ positions' = SelectSeq(positions, InBracket)
             /\ Len(trades') - Len(trades) = Len(positions) - Len(positions')]_vars

\* At the end of a date one position has been held since an earlier date
\* and another one has left through step (b) of the date.
EndOfDayBracketWitness ==
    /\ pc = "loop"
    /\ di >= 2
    /\ \E i \in 1..Len(positions) :
          positions[i].entry_date < current_date /\ InBracket(positions[i])
    /\ \E i \in 1..Len(trades) : trades[i].exit_date = current_date

\* ---- C30
\* The position is as _execute_entry made it: never marked, its stop never
\* moved.
Untouched(p) ==
    /\ p.current_price = p.entry_price
    /\ p.current_date = p.entry_date
    /\ p.stop_loss = calculate_initial_stop_loss(risk_manager, p.entry_price)

\* C30: a position opened on a date is not marked, its stop is not moved and
\* it is not removed before the next date is processed, so every trade's
\* exit_date is after its entry_date; an exit of a date comes before the
\* entries of that date, never after one of them.
NoSameDayRoundTrip ==
    /\ [](\A k \in 1..Len(trades) : trades[k].exit_date > trades[k].entry_date)
    /\ [](\A i \in 1..Len(positions) : OpenedToday(positions[i]) =>
             Untouched(positions[i]))
    /\ [][(pc # "done") =>
             /\ \A i \in 1..Len(positions) : OpenedToday(positions[i]) =>
                   i <= Len(positions') /\ positions'[i] = positions[i]
             /\ (n_removals' # n_removals) => n_entries' = n_entries
             /\ (n_removals' # n_removals) =>
                   \A i \in 1..Len(positions) : ~OpenedToday(positions[i])]_vars

\* The only slot was freed by an exit of the date and filled again by an
\* entry of the same date.
NoSameDayRoundTripWitness ==
    /\ di >= 2
    /\ Len(positions) = max_positions
    /\ \E i \in 1..Len(positions) : OpenedToday(positions[i])
    /\ \E k \in 1..Len(trades) : trades[k].exit_date = current_date

====
